---------------------------- MODULE Spec2Model ----------------------------
(***************************************************************************)
(* Model of two parts of Bonsai:                                           *)
(*                                                                         *)
(*  - the snapshot handoff between the compute thread and the asynchronous *)
(*    I/O thread of runtime/src/main.cpp (the omp parallel region at the   *)
(*    end of main), and                                                    *)
(*  - the GpuArray<T> class of tools/bonsaiRenderer/smoke/GpuArray.h.      *)
(*                                                                         *)
(* ioSharedData.writingFinished == true is the handoff state Idle,         *)
(* ioSharedData.writingFinished == false is the handoff state Ready.       *)
(***************************************************************************)
EXTENDS Integers, Sequences, FiniteSets, TLC

\* ------------------------------------------------------------------ bounds
\* Number of snapshots the compute thread may publish in one run.
MaxSnapshots == 3
\* Largest particle count of a snapshot.
MaxBodies == 2
\* Largest element count of a GpuArray.
MaxSize == 2
\* Number of host arrays, device allocations and buffer objects that memory
\* holds at once.
MaxHeap == 3

VARIABLES
    \* ---- runtime/src/main.cpp
    useMPIIO,            \* bool useMPIIO
    nProcs,              \* number of MPI processes
    simulationFinished,  \* bool simulationFinished
    writingFinished,     \* ioSharedData.writingFinished
    ioSharedData,        \* payload: nBodies, t_current, Pos/Vel/IDs present
    cpc,                 \* position of thread 0 (compute)
    ipc,                 \* position of thread 1 (I/O); "none" when not created
    mpc,                 \* position of the main flow around the region
    n,                   \* the I/O thread's local n
    t_current,           \* the I/O thread's local t_current
    written,             \* snapshot write calls made so far, in order
    nPublished,          \* number of times the producer set Ready
    nDrained,            \* number of polls that found Ready
    publishResult,       \* outcome of the producer's last publish attempt
    terminateIOCalled,   \* tree->terminateIO() was called
    ioLast,              \* the last step taken, and by which thread
    \* ---- tools/bonsaiRenderer/smoke/GpuArray.h
    gpu,                 \* the fields of one GpuArray<T> object
    heap,                \* host arrays, device allocations, buffer objects
    activeDevice,        \* the CUDA device current in the calling thread
    devID,               \* extern int devID
    renderDevID,         \* extern int renderDevID
    exited,              \* the process ended in exit(-1)
    gLast,               \* the last GpuArray operation and what it did
    gPrev,               \* the operation before it: "alloc", "free", "other"
    pre,                 \* the fields before the last operation
    acquired             \* the resources the last alloc() acquired

ioVars == <<useMPIIO, nProcs, simulationFinished, writingFinished, ioSharedData,
            cpc, ipc, mpc, n, t_current, written, nPublished, nDrained,
            publishResult, terminateIOCalled, ioLast>>

gpuVars == <<gpu, heap, activeDevice, devID, renderDevID, exited,
             gLast, gPrev, pre, acquired>>

vars == <<ioVars, gpuVars>>

\* Values of nProcs that select each branch of the code (abort when > 1,
\* per-process snapshot files when > 16).
NProcsValues == {1, 2, 17}

\* The payload after IOSharedData_t::free(), and before the first publish.
EmptyPayload == [nBodies |-> 0, t_current |-> 0, allocated |-> FALSE]

\* A region that always runs two threads.
NumThreads_Two(mpiio) == 2

\* omp parallel num_threads(1 + (!useMPIIO))
NumThreads(mpiio) == 1 + (IF mpiio THEN 0 ELSE 1)

InitIO ==
    /\ useMPIIO \in BOOLEAN
    /\ nProcs \in NProcsValues
    /\ simulationFinished = FALSE
    /\ writingFinished = TRUE
    /\ ioSharedData = EmptyPayload
    /\ cpc = "iterate"
    /\ ipc = IF NumThreads(useMPIIO) = 2 THEN "sleep" ELSE "none"
    /\ mpc = "region"
    /\ n = 0
    /\ t_current = 0
    /\ written = <<>>
    /\ nPublished = 0
    /\ nDrained = 0
    /\ publishResult = "none"
    /\ terminateIOCalled = FALSE
    /\ ioLast = [thread |-> "main", step |-> "init"]

\* ------------------------------------------------- compute thread (tid == 0)
\* PublishCheck without the guard: a publish while Ready goes on to overwrite.
PublishCheck_Unguarded ==
    /\ cpc = "iterate"
    /\ nPublished < MaxSnapshots
    /\ cpc' = "populate"
    /\ ioLast' = [thread |-> "compute", step |-> "PublishCheck"]
    /\ UNCHANGED gpuVars
    /\ UNCHANGED <<useMPIIO, nProcs, simulationFinished, writingFinished,
                   ioSharedData, ipc, mpc, n, t_current, written, nPublished,
                   nDrained, publishResult, terminateIOCalled>>

\* The producer inside tree->iterate(): publish(slot), first half.  A publish
\* while the state is Ready fails as a usage error and changes nothing.
PublishCheck ==
    /\ cpc = "iterate"
    /\ nPublished < MaxSnapshots
    /\ IF writingFinished
          THEN /\ cpc' = "populate"
               /\ UNCHANGED publishResult
          ELSE /\ publishResult' = "UsageError"
               /\ UNCHANGED cpc
    /\ ioLast' = [thread |-> "compute", step |-> "PublishCheck"]
    /\ UNCHANGED gpuVars
    /\ UNCHANGED <<useMPIIO, nProcs, simulationFinished, writingFinished,
                   ioSharedData, ipc, mpc, n, t_current, written, nPublished,
                   nDrained, terminateIOCalled>>

\* The producer fills the slot: element count, simulation time, the arrays.
\* Snapshots are tagged with increasing simulation time.
Populate ==
    /\ cpc = "populate"
    /\ \E nb \in 1..MaxBodies :
          ioSharedData' = [nBodies |-> nb, t_current |-> nPublished + 1,
                           allocated |-> TRUE]
    /\ cpc' = "setReady"
    /\ ioLast' = [thread |-> "compute", step |-> "Populate"]
    /\ UNCHANGED gpuVars
    /\ UNCHANGED <<useMPIIO, nProcs, simulationFinished, writingFinished,
                   ipc, mpc, n, t_current, written, nPublished, nDrained,
                   publishResult, terminateIOCalled>>

\* The producer hands the slot over: Idle -> Ready.
SetReady ==
    /\ cpc = "setReady"
    /\ writingFinished' = FALSE
    /\ nPublished' = nPublished + 1
    /\ publishResult' = "ok"
    /\ cpc' = "iterate"
    /\ ioLast' = [thread |-> "compute", step |-> "SetReady"]
    /\ UNCHANGED gpuVars
    /\ UNCHANGED <<useMPIIO, nProcs, simulationFinished, ioSharedData,
                   ipc, mpc, n, t_current, written, nDrained,
                   terminateIOCalled>>

\* tree->iterate() returns normally.
IterateReturn ==
    /\ cpc = "iterate"
    /\ cpc' = "finish"
    /\ ioLast' = [thread |-> "compute", step |-> "IterateReturn"]
    /\ UNCHANGED gpuVars
    /\ UNCHANGED <<useMPIIO, nProcs, simulationFinished, writingFinished,
                   ioSharedData, ipc, mpc, n, t_current, written, nPublished,
                   nDrained, publishResult, terminateIOCalled>>

\* tree->iterate() throws; the exception reaches one of the catch clauses.
IterateThrow ==
    /\ cpc \in {"iterate", "populate", "setReady"}
    /\ cpc' = "caught"
    /\ ioLast' = [thread |-> "compute", step |-> "IterateThrow"]
    /\ UNCHANGED gpuVars
    /\ UNCHANGED <<useMPIIO, nProcs, simulationFinished, writingFinished,
                   ioSharedData, ipc, mpc, n, t_current, written, nPublished,
                   nDrained, publishResult, terminateIOCalled>>

\* catch: print, and if (nProcs > 1) ::abort(), which ends the process.
Caught ==
    /\ cpc = "caught"
    /\ IF nProcs > 1
          THEN /\ cpc' = "aborted"
               /\ ipc' = IF ipc = "none" THEN "none" ELSE "aborted"
               /\ mpc' = "aborted"
          ELSE /\ cpc' = "finish"
               /\ UNCHANGED <<ipc, mpc>>
    /\ ioLast' = [thread |-> "compute", step |-> "Caught"]
    /\ UNCHANGED gpuVars
    /\ UNCHANGED <<useMPIIO, nProcs, simulationFinished, writingFinished,
                   ioSharedData, n, t_current, written, nPublished, nDrained,
                   publishResult, terminateIOCalled>>

\* simulationFinished = true;
Finish ==
    /\ cpc = "finish"
    /\ simulationFinished' = TRUE
    /\ cpc' = "done"
    /\ ioLast' = [thread |-> "compute", step |-> "Finish"]
    /\ UNCHANGED gpuVars
    /\ UNCHANGED <<useMPIIO, nProcs, writingFinished, ioSharedData, ipc, mpc,
                   n, t_current, written, nPublished, nDrained, publishResult,
                   terminateIOCalled>>

\* ----------------------------------------------------- I/O thread (tid != 0)
\* assert(!useMPIIO); sleep(1);
IOSleep ==
    /\ ipc = "sleep"
    /\ ipc' = IF useMPIIO THEN "assertFailed" ELSE "loop"
    /\ ioLast' = [thread |-> "io", step |-> "IOSleep"]
    /\ UNCHANGED gpuVars
    /\ UNCHANGED <<useMPIIO, nProcs, simulationFinished, writingFinished,
                   ioSharedData, cpc, mpc, n, t_current, written, nPublished,
                   nDrained, publishResult, terminateIOCalled>>

\* IOLoopTest with the loop condition inverted.
IOLoopTest_Inverted ==
    /\ ipc = "loop"
    /\ ipc' = IF simulationFinished THEN "check" ELSE "exit"
    /\ ioLast' = [thread |-> "io", step |-> "IOLoopTest"]
    /\ UNCHANGED gpuVars
    /\ UNCHANGED <<useMPIIO, nProcs, simulationFinished, writingFinished,
                   ioSharedData, cpc, mpc, n, t_current, written, nPublished,
                   nDrained, publishResult, terminateIOCalled>>

\* while(!simulationFinished)
IOLoopTest ==
    /\ ipc = "loop"
    /\ ipc' = IF simulationFinished THEN "exit" ELSE "check"
    /\ ioLast' = [thread |-> "io", step |-> "IOLoopTest"]
    /\ UNCHANGED gpuVars
    /\ UNCHANGED <<useMPIIO, nProcs, simulationFinished, writingFinished,
                   ioSharedData, cpc, mpc, n, t_current, written, nPublished,
                   nDrained, publishResult, terminateIOCalled>>

\* IOCheck with the test inverted: drains when the flag is Idle.
IOCheck_Inverted ==
    /\ ipc = "check"
    /\ IF writingFinished = TRUE
          THEN /\ ipc' = "read"
               /\ nDrained' = nDrained + 1
          ELSE /\ ipc' = "usleep"
               /\ UNCHANGED nDrained
    /\ ioLast' = [thread |-> "io", step |-> "IOCheck"]
    /\ UNCHANGED gpuVars
    /\ UNCHANGED <<useMPIIO, nProcs, simulationFinished, writingFinished,
                   ioSharedData, cpc, mpc, n, t_current, written, nPublished,
                   publishResult, terminateIOCalled>>

\* IOCheck that waits for the producer: it only returns once the flag is Ready.
IOCheck_Blocking ==
    /\ ipc = "check"
    /\ writingFinished = FALSE
    /\ ipc' = "read"
    /\ nDrained' = nDrained + 1
    /\ ioLast' = [thread |-> "io", step |-> "IOCheck"]
    /\ UNCHANGED gpuVars
    /\ UNCHANGED <<useMPIIO, nProcs, simulationFinished, writingFinished,
                   ioSharedData, cpc, mpc, n, t_current, written, nPublished,
                   publishResult, terminateIOCalled>>

\* if(ioSharedData.writingFinished == false) ... else usleep(100)
IOCheck ==
    /\ ipc = "check"
    /\ IF writingFinished = FALSE
          THEN /\ ipc' = "read"
               /\ nDrained' = nDrained + 1
          ELSE /\ ipc' = "usleep"
               /\ UNCHANGED nDrained
    /\ ioLast' = [thread |-> "io", step |-> "IOCheck"]
    /\ UNCHANGED gpuVars
    /\ UNCHANGED <<useMPIIO, nProcs, simulationFinished, writingFinished,
                   ioSharedData, cpc, mpc, n, t_current, written, nPublished,
                   publishResult, terminateIOCalled>>

\* const int n = ioSharedData.nBodies; const float t_current = ...t_current;
IORead ==
    /\ ipc = "read"
    /\ n' = ioSharedData.nBodies
    /\ t_current' = ioSharedData.t_current
    /\ ipc' = "write"
    /\ ioLast' = [thread |-> "io", step |-> "IORead"]
    /\ UNCHANGED gpuVars
    /\ UNCHANGED <<useMPIIO, nProcs, simulationFinished, writingFinished,
                   ioSharedData, cpc, mpc, written, nPublished, nDrained,
                   publishResult, terminateIOCalled>>

\* The snapshot write call: one file for nProcs <= 16, one per process else.
IOWrite ==
    /\ ipc = "write"
    /\ written' = Append(written,
                    [t |-> t_current, n |-> n,
                     call |-> IF nProcs <= 16
                                 THEN "write_dumbp_snapshot_parallel"
                                 ELSE "write_snapshot_per_process",
                     payload |-> ioSharedData])
    /\ ipc' = "free"
    /\ ioLast' = [thread |-> "io", step |-> "IOWrite"]
    /\ UNCHANGED gpuVars
    /\ UNCHANGED <<useMPIIO, nProcs, simulationFinished, writingFinished,
                   ioSharedData, cpc, mpc, n, t_current, nPublished, nDrained,
                   publishResult, terminateIOCalled>>

\* IOFree that does not release the payload.
IOFree_Skipped ==
    /\ ipc = "free"
    /\ ipc' = "assert"
    /\ ioLast' = [thread |-> "io", step |-> "IOFree"]
    /\ UNCHANGED gpuVars
    /\ UNCHANGED <<useMPIIO, nProcs, simulationFinished, writingFinished,
                   ioSharedData, cpc, mpc, n, t_current, written, nPublished,
                   nDrained, publishResult, terminateIOCalled>>

\* ioSharedData.free() that also marks the channel Idle.
IOFree_ResetsFlag ==
    /\ ipc = "free"
    /\ ioSharedData' = EmptyPayload
    /\ writingFinished' = TRUE
    /\ ipc' = "assert"
    /\ ioLast' = [thread |-> "io", step |-> "IOFree"]
    /\ UNCHANGED gpuVars
    /\ UNCHANGED <<useMPIIO, nProcs, simulationFinished, cpc, mpc, n,
                   t_current, written, nPublished, nDrained, publishResult,
                   terminateIOCalled>>

\* ioSharedData.free();
IOFree ==
    /\ ipc = "free"
    /\ ioSharedData' = EmptyPayload
    /\ ipc' = "assert"
    /\ ioLast' = [thread |-> "io", step |-> "IOFree"]
    /\ UNCHANGED gpuVars
    /\ UNCHANGED <<useMPIIO, nProcs, simulationFinished, writingFinished,
                   cpc, mpc, n, t_current, written, nPublished, nDrained,
                   publishResult, terminateIOCalled>>

\* assert(ioSharedData.writingFinished == false);
IOAssertReady ==
    /\ ipc = "assert"
    /\ ipc' = IF writingFinished = FALSE THEN "setIdle" ELSE "assertFailed"
    /\ ioLast' = [thread |-> "io", step |-> "IOAssertReady"]
    /\ UNCHANGED gpuVars
    /\ UNCHANGED <<useMPIIO, nProcs, simulationFinished, writingFinished,
                   ioSharedData, cpc, mpc, n, t_current, written, nPublished,
                   nDrained, publishResult, terminateIOCalled>>

\* IOSetIdle that leaves the flag Ready.
IOSetIdle_Forgotten ==
    /\ ipc = "setIdle"
    /\ ipc' = "loop"
    /\ ioLast' = [thread |-> "io", step |-> "IOSetIdle"]
    /\ UNCHANGED gpuVars
    /\ UNCHANGED <<useMPIIO, nProcs, simulationFinished, writingFinished,
                   ioSharedData, cpc, mpc, n, t_current, written, nPublished,
                   nDrained, publishResult, terminateIOCalled>>

\* ioSharedData.writingFinished = true;
IOSetIdle ==
    /\ ipc = "setIdle"
    /\ writingFinished' = TRUE
    /\ ipc' = "loop"
    /\ ioLast' = [thread |-> "io", step |-> "IOSetIdle"]
    /\ UNCHANGED gpuVars
    /\ UNCHANGED <<useMPIIO, nProcs, simulationFinished, ioSharedData, cpc,
                   mpc, n, t_current, written, nPublished, nDrained,
                   publishResult, terminateIOCalled>>

\* usleep(100);
IOUsleep ==
    /\ ipc = "usleep"
    /\ ipc' = "loop"
    /\ ioLast' = [thread |-> "io", step |-> "IOUsleep"]
    /\ UNCHANGED gpuVars
    /\ UNCHANGED <<useMPIIO, nProcs, simulationFinished, writingFinished,
                   ioSharedData, cpc, mpc, n, t_current, written, nPublished,
                   nDrained, publishResult, terminateIOCalled>>

\* --------------------------------------------------------- after the region
\* The implicit barrier at the end of the parallel region, then
\* if (useMPIIO) tree->terminateIO();
RegionEnd ==
    /\ mpc = "region"
    /\ cpc = "done"
    /\ ipc \in {"exit", "none"}
    /\ mpc' = "after"
    /\ terminateIOCalled' = useMPIIO
    /\ ioLast' = [thread |-> "main", step |-> "RegionEnd"]
    /\ UNCHANGED gpuVars
    /\ UNCHANGED <<useMPIIO, nProcs, simulationFinished, writingFinished,
                   ioSharedData, cpc, ipc, n, t_current, written, nPublished,
                   nDrained, publishResult>>

\* ------------------------------------------- stores that overtake each other
\* ioSharedData is a volatile object and simulationFinished a plain bool; no
\* access to them is atomic, and the region has no flush, critical section or
\* fence.  Nothing orders two stores of one thread as the other thread sees
\* them: a later store may become visible before an earlier one.  The steps
\* below are the stores of a thread performed in the other order.

\* The producer's store of Ready becomes visible before its payload stores.
SetReadyEarly ==
    /\ cpc = "populate"
    /\ writingFinished' = FALSE
    /\ nPublished' = nPublished + 1
    /\ publishResult' = "ok"
    /\ cpc' = "populateLate"
    /\ ioLast' = [thread |-> "compute", step |-> "SetReadyEarly"]
    /\ UNCHANGED gpuVars
    /\ UNCHANGED <<useMPIIO, nProcs, simulationFinished, ioSharedData,
                   ipc, mpc, n, t_current, written, nDrained,
                   terminateIOCalled>>

PopulateLate ==
    /\ cpc = "populateLate"
    /\ \E nb \in 1..MaxBodies :
          ioSharedData' = [nBodies |-> nb, t_current |-> nPublished,
                           allocated |-> TRUE]
    /\ cpc' = "iterate"
    /\ ioLast' = [thread |-> "compute", step |-> "PopulateLate"]
    /\ UNCHANGED gpuVars
    /\ UNCHANGED <<useMPIIO, nProcs, simulationFinished, writingFinished,
                   ipc, mpc, n, t_current, written, nPublished, nDrained,
                   publishResult, terminateIOCalled>>

\* The store simulationFinished = true becomes visible before the store of
\* Ready of the last publish, after which iterate() returned.
FinishEarly ==
    /\ cpc = "setReady"
    /\ simulationFinished' = TRUE
    /\ cpc' = "setReadyLate"
    /\ ioLast' = [thread |-> "compute", step |-> "FinishEarly"]
    /\ UNCHANGED gpuVars
    /\ UNCHANGED <<useMPIIO, nProcs, writingFinished, ioSharedData, ipc, mpc,
                   n, t_current, written, nPublished, nDrained, publishResult,
                   terminateIOCalled>>

SetReadyLate ==
    /\ cpc = "setReadyLate"
    /\ writingFinished' = FALSE
    /\ nPublished' = nPublished + 1
    /\ publishResult' = "ok"
    /\ cpc' = "done"
    /\ ioLast' = [thread |-> "compute", step |-> "SetReadyLate"]
    /\ UNCHANGED gpuVars
    /\ UNCHANGED <<useMPIIO, nProcs, simulationFinished, ioSharedData,
                   ipc, mpc, n, t_current, written, nDrained,
                   terminateIOCalled>>

\* The consumer's store writingFinished = true becomes visible before the
\* stores of ioSharedData.free().  The assert between them reads the
\* consumer's own view, in which the flag is still false.
IOSetIdleEarly ==
    /\ ipc = "free"
    /\ writingFinished' = TRUE
    /\ ipc' = "freeLate"
    /\ ioLast' = [thread |-> "io", step |-> "IOSetIdleEarly"]
    /\ UNCHANGED gpuVars
    /\ UNCHANGED <<useMPIIO, nProcs, simulationFinished, ioSharedData, cpc,
                   mpc, n, t_current, written, nPublished, nDrained,
                   publishResult, terminateIOCalled>>

IOFreeLate ==
    /\ ipc = "freeLate"
    /\ ioSharedData' = EmptyPayload
    /\ ipc' = "loop"
    /\ ioLast' = [thread |-> "io", step |-> "IOFreeLate"]
    /\ UNCHANGED gpuVars
    /\ UNCHANGED <<useMPIIO, nProcs, simulationFinished, writingFinished,
                   cpc, mpc, n, t_current, written, nPublished, nDrained,
                   publishResult, terminateIOCalled>>

\* ------------------------------------------------------------ GpuArray<T>
\* Pointers and buffer names are indices into heap; 0 is the null pointer and
\* the buffer name 0.  An element of an array that was never written holds 0.
\* As an allocator does, a new resource takes the first address that is free.
Slots == 0..1

Fresh(h) ==
    IF \E p \in 1..Len(h) : ~h[p].live
       THEN CHOOSE p \in 1..Len(h) :
               ~h[p].live /\ \A q \in 1..(p - 1) : h[q].live
       ELSE Len(h) + 1

Put(h, p, r) == IF p = Len(h) + 1 THEN Append(h, r) ELSE [h EXCEPT ![p] = r]

NewRes(kind, sz) ==
    [kind |-> kind, size |-> sz, live |-> TRUE, releases |-> 0,
     mapped |-> FALSE, data |-> [i \in 1..sz |-> 0]]

\* What a released resource held is gone with it.
Release(h, p) ==
    [h EXCEPT ![p].live = FALSE, ![p].releases = @ + 1, ![p].mapped = FALSE,
              ![p].data = [i \in 1..h[p].size |-> 0]]

\* GpuArray<T>::GpuArray().  m_useVBO and m_doubleBuffer are left
\* uninitialized: uv and db are whatever the memory holds.
Constructed(uv, db) ==
    [m_size |-> 0,
     m_dptr |-> [i \in Slots |-> 0],
     m_vbo |-> [i \in Slots |-> 0],
     m_hptr |-> 0,
     m_useVBO |-> uv,
     m_doubleBuffer |-> db,
     m_currentRead |-> 0,
     m_currentWrite |-> 0]

\* The state an operation threads through its statements: the object g, the
\* heap h, the active device, whether the process is still running (ok), the
\* number of CUDA calls made, the call that is to fail (failAt, 0 for none),
\* whether a CUDA call returned an error (failed), and the resources acquired
\* and released, in order.
Begin(failAt) ==
    [g |-> gpu, h |-> heap, dev |-> activeDevice, ok |-> TRUE, calls |-> 0,
     failAt |-> failAt, failed |-> FALSE, acq |-> <<>>, rel |-> <<>>,
     oob |-> FALSE]

\* __cudaSafeCall that prints the error and returns to its caller.
cudaSafeCall_Returns(st, succeeds, then) ==
    IF ~st.ok THEN st
    ELSE IF succeeds /\ st.calls + 1 # st.failAt
            THEN [then EXCEPT !.calls = st.calls + 1]
            ELSE [st EXCEPT !.calls = st.calls + 1, !.failed = TRUE]

\* __cudaSafeCall around one CUDA call: when the call fails (err # cudaSuccess)
\* the process prints and exits; otherwise the call's effect `then` stands.
cudaSafeCall(st, succeeds, then) ==
    IF ~st.ok THEN st
    ELSE IF succeeds /\ st.calls + 1 # st.failAt
            THEN [then EXCEPT !.calls = st.calls + 1]
            ELSE [st EXCEPT !.calls = st.calls + 1, !.failed = TRUE,
                            !.ok = FALSE]

\* m_hptr = (T *) new T [m_size];
allocHost(st) ==
    IF ~st.ok THEN st
    ELSE LET p == Fresh(st.h) IN
         [st EXCEPT !.h = Put(@, p, NewRes("host", st.g.m_size)),
                    !.g.m_hptr = p,
                    !.acq = Append(@, p)]

\* freeHost that leaves m_hptr pointing at the deleted array.
freeHost_NoReset(st) ==
    IF ~st.ok \/ st.g.m_hptr = 0 THEN st
    ELSE [st EXCEPT !.h = Release(@, st.g.m_hptr),
                    !.rel = Append(@, st.g.m_hptr)]

\* if (m_hptr) { delete [] m_hptr; m_hptr = 0; }
freeHost(st) ==
    IF ~st.ok \/ st.g.m_hptr = 0 THEN st
    ELSE [st EXCEPT !.h = Release(@, st.g.m_hptr),
                    !.rel = Append(@, st.g.m_hptr),
                    !.g.m_hptr = 0]

\* cutilSafeCall(cudaMalloc((void **) &m_dptr[i], m_size*sizeof(T)));
cudaMallocSlot(st, i) ==
    IF ~st.ok THEN st
    ELSE LET p == Fresh(st.h) IN
         cudaSafeCall(st, TRUE,
            [st EXCEPT !.h = Put(@, p, NewRes("dev", st.g.m_size)),
                       !.g.m_dptr[i] = p,
                       !.acq = Append(@, p)])

\* allocDevice that allocates slot 0 only.
allocDevice_Single(st) == cudaMallocSlot(st, 0)

\* GpuArray<T>::allocDevice()
allocDevice(st) ==
    LET s0 == cudaMallocSlot(st, 0) IN
    IF st.g.m_doubleBuffer THEN cudaMallocSlot(s0, 1) ELSE s0

\* if (m_dptr[i]) { cutilSafeCall(cudaFree(m_dptr[i])); m_dptr[i] = 0; }
\* cudaFree fails on an address that is not a live device allocation.
cudaFreeSlot(st, i) ==
    IF ~st.ok \/ st.g.m_dptr[i] = 0 THEN st
    ELSE LET p == st.g.m_dptr[i] IN
         cudaSafeCall(st, st.h[p].kind = "dev" /\ st.h[p].live,
            [st EXCEPT !.h = Release(@, p),
                       !.rel = Append(@, p),
                       !.g.m_dptr[i] = 0])

freeDevice(st) == cudaFreeSlot(cudaFreeSlot(st, 0), 1)

\* m_vbo[i] = createVbo(...): glGenBuffers, glBufferData, then
\* cudaGLRegisterBufferObject and cudaGLSetBufferObjectMapFlags.
createVboSlot(st, i) ==
    IF ~st.ok THEN st
    ELSE LET p == Fresh(st.h)
             made == [st EXCEPT !.h = Put(@, p, NewRes("vbo", st.g.m_size)),
                                !.acq = Append(@, p)]
             registered == cudaSafeCall(made, TRUE, made)
             flagged == cudaSafeCall(registered, TRUE, registered)
         IN  IF flagged.ok THEN [flagged EXCEPT !.g.m_vbo[i] = p] ELSE flagged

allocVbo(st) ==
    LET s0 == createVboSlot(st, 0) IN
    IF st.g.m_doubleBuffer THEN createVboSlot(s0, 1) ELSE s0

\* if (m_vbo[i]) { cutilSafeCall(cudaGLUnregisterBufferObject(m_vbo[i]));
\*                 glDeleteBuffers(1, &m_vbo[i]); m_vbo[i] = 0; }
freeVboSlot(st, i) ==
    IF ~st.ok \/ st.g.m_vbo[i] = 0 THEN st
    ELSE LET p == st.g.m_vbo[i] IN
         cudaSafeCall(st, st.h[p].live,
            [st EXCEPT !.h = Release(@, p),
                       !.rel = Append(@, p),
                       !.g.m_vbo[i] = 0])

freeVbo(st) == freeVboSlot(freeVboSlot(st, 0), 1)

\* GpuArray<T>::alloc(size, vbo, doubleBuffer, useElementArray).
\* useElementArray only selects the GL binding target of createVbo.
alloc(st, size, vbo, doubleBuffer) ==
    LET s0 == [st EXCEPT !.g.m_size = size,
                         !.g.m_useVBO = vbo,
                         !.g.m_doubleBuffer = doubleBuffer,
                         !.g.m_currentWrite = IF doubleBuffer THEN 1 ELSE @]
        s1 == allocHost(s0)
    IN  IF vbo THEN allocVbo(s1) ELSE allocDevice(s1)

\* GpuArray<T>::free().  The test `if (m_vbo)` is on the array m_vbo itself,
\* whose address is never null: the condition is always true.
free(st) ==
    LET s1 == freeHost(st)
        m_vbo_array_is_nonnull == TRUE
    IN  IF m_vbo_array_is_nonnull THEN freeVbo(s1) ELSE freeDevice(s1)

\* swap that rejects the call on a buffer that is not double-buffered.
swap_Checked(st) ==
    IF st.g.m_doubleBuffer
       THEN [st EXCEPT !.g.m_currentRead = st.g.m_currentWrite,
                       !.g.m_currentWrite = st.g.m_currentRead]
       ELSE [st EXCEPT !.ok = FALSE]

\* GpuArray<T>::swap(): std::swap(m_currentRead, m_currentWrite);
swap(st) ==
    [st EXCEPT !.g.m_currentRead = st.g.m_currentWrite,
               !.g.m_currentWrite = st.g.m_currentRead]

\* cutilSafeCall(cudaGLMapBufferObject((void **) &m_dptr[i], m_vbo[i]));
\* Mapping a buffer that is already mapped, or not registered, fails.
mapSlot(st, i) ==
    IF ~st.ok THEN st
    ELSE LET p == st.g.m_vbo[i] IN
         cudaSafeCall(st, st.h[p].live /\ ~st.h[p].mapped,
            [st EXCEPT !.h[p].mapped = TRUE,
                       !.g.m_dptr[i] = p])

\* map that tells a mapped buffer from its non-null device pointer and
\* returns without calling CUDA again.
map_Checked(st) ==
    IF st.g.m_vbo[0] # 0 /\ st.g.m_dptr[0] # 0 THEN st
    ELSE LET s0 == IF st.g.m_vbo[0] # 0 THEN mapSlot(st, 0) ELSE st IN
         IF st.g.m_doubleBuffer /\ st.g.m_vbo[1] # 0 THEN mapSlot(s0, 1) ELSE s0

\* GpuArray<T>::map()
map(st) ==
    LET s0 == IF st.g.m_vbo[0] # 0 THEN mapSlot(st, 0) ELSE st IN
    IF st.g.m_doubleBuffer /\ st.g.m_vbo[1] # 0 THEN mapSlot(s0, 1) ELSE s0

\* cutilSafeCall(cudaGLUnmapBufferObject(m_vbo[i])); m_dptr[i] = 0;
\* Unmapping a buffer that is not mapped fails.
unmapSlot(st, i) ==
    IF ~st.ok THEN st
    ELSE LET p == st.g.m_vbo[i] IN
         cudaSafeCall(st, st.h[p].live /\ st.h[p].mapped,
            [st EXCEPT !.h[p].mapped = FALSE,
                       !.g.m_dptr[i] = 0])

\* unmap that clears the device pointers whether or not a buffer object
\* was unmapped.
unmap_PointersCleared(st) ==
    LET s0 == IF st.g.m_vbo[0] # 0 THEN unmapSlot(st, 0) ELSE st
        s1 == IF st.g.m_doubleBuffer /\ st.g.m_vbo[1] # 0
                 THEN unmapSlot(s0, 1) ELSE s0
    IN  IF s1.ok THEN [s1 EXCEPT !.g.m_dptr = [i \in Slots |-> 0]] ELSE s1

\* GpuArray<T>::unmap()
unmap(st) ==
    LET s0 == IF st.g.m_vbo[0] # 0 THEN unmapSlot(st, 0) ELSE st IN
    IF st.g.m_doubleBuffer /\ st.g.m_vbo[1] # 0 THEN unmapSlot(s0, 1) ELSE s0

\* A device address cudaMemcpy can use: a live device allocation, or a buffer
\* object that is mapped.
ValidDevice(h, p) ==
    /\ p # 0
    /\ h[p].live
    /\ h[p].kind = "dev" \/ (h[p].kind = "vbo" /\ h[p].mapped)

ValidHost(h, p) == p # 0 /\ h[p].live /\ h[p].kind = "host"

\* The elements start+1 .. start+count of `to` replaced by those of `from`
\* (arrays are 1-based here, 0-based in the code), as far as both reach.
Transfer(to, from, start, count) ==
    [i \in 1..Len(to) |->
        IF i > start /\ i <= start + count /\ i <= Len(from)
           THEN from[i] ELSE to[i]]

\* cutilSafeCall(cudaMemcpy(dst + start, src + start, count*sizeof(T), kind));
\* A transfer of 0 bytes succeeds.  A transfer through a null or stale
\* pointer fails.  A transfer past the end of an array is undefined: the
\* call fails, or it goes through and the part inside the arrays is copied.
cudaMemcpySlot(st, dir, start, count, pastEndFails) ==
    IF ~st.ok THEN st
    ELSE LET d == st.g.m_dptr[st.g.m_currentRead]
             hp == st.g.m_hptr
             valid == ValidDevice(st.h, d) /\ ValidHost(st.h, hp)
             past == valid /\ (start + count > st.h[d].size
                               \/ start + count > st.h[hp].size)
             s0 == [st EXCEPT !.oob = past]
         IN  IF count = 0 THEN cudaSafeCall(st, TRUE, st)
             ELSE cudaSafeCall(s0, valid /\ ~(past /\ pastEndFails),
                    IF ~valid THEN s0
                    ELSE IF dir = "HOST_TO_DEVICE"
                         THEN [s0 EXCEPT !.h[d].data =
                                  Transfer(@, st.h[hp].data, start, count)]
                         ELSE [s0 EXCEPT !.h[hp].data =
                                  Transfer(@, st.h[d].data, start, count)])

\* copy that does not select the render device before the transfer.
copy_Unswitched(st, dir, start, count, pastEndFails) ==
    LET cnt == IF count = 0 THEN st.g.m_size ELSE count
        s1 == map(st)
        s2 == cudaMemcpySlot(s1, dir, start, cnt, pastEndFails)
        s3 == unmap(s2)
    IN  IF s3.ok THEN [s3 EXCEPT !.dev = devID] ELSE s3

\* copy without the map() before and the unmap() after the transfer.
copy_Unbracketed(st, dir, start, count, pastEndFails) ==
    LET cnt == IF count = 0 THEN st.g.m_size ELSE count
        s0 == [st EXCEPT !.dev = renderDevID]
        s2 == cudaMemcpySlot(s0, dir, start, cnt, pastEndFails)
    IN  IF s2.ok THEN [s2 EXCEPT !.dev = devID] ELSE s2

\* GpuArray<T>::copy(dir, start, count)
copy(st, dir, start, count, pastEndFails) ==
    LET cnt == IF count = 0 THEN st.g.m_size ELSE count
        s0 == [st EXCEPT !.dev = renderDevID]
        s1 == map(s0)
        s2 == cudaMemcpySlot(s1, dir, start, cnt, pastEndFails)
        s3 == unmap(s2)
    IN  IF s3.ok THEN [s3 EXCEPT !.dev = devID] ELSE s3

\* T *getDevicePtr(), GLuint getVbo(), T *getDeviceWritePtr(), getWriteVbo()
getDevicePtr(g) == g.m_dptr[g.m_currentRead]
getVbo(g) == g.m_vbo[g.m_currentRead]
getDeviceWritePtr(g) == g.m_dptr[g.m_currentWrite]
getWriteVbo(g) == g.m_vbo[g.m_currentWrite]

\* The object is constructed; devID and renderDevID are set from the command
\* line in main; the calling thread runs on some device.
InitGpu ==
    /\ \E uv \in BOOLEAN, db \in BOOLEAN : gpu = Constructed(uv, db)
    /\ heap = <<>>
    /\ devID \in Slots
    /\ renderDevID \in Slots
    /\ activeDevice \in Slots
    /\ exited = FALSE
    /\ gLast = [op |-> "GpuArray", ok |-> TRUE, failed |-> FALSE, calls |-> 0,
                acq |-> <<>>, rel |-> <<>>, oob |-> FALSE]
    /\ gPrev = "other"
    /\ pre = gpu
    /\ acquired = {}

\* One call of a member function, whose statements took the state to st.
Call(name, st) ==
    /\ gpu' = st.g
    /\ heap' = st.h
    /\ activeDevice' = st.dev
    /\ exited' = ~st.ok
    /\ gLast' = [op |-> name, ok |-> st.ok, failed |-> st.failed,
                 calls |-> st.calls, acq |-> st.acq, rel |-> st.rel,
                 oob |-> st.oob]
    /\ gPrev' = IF gLast.op \in {"alloc", "free"} THEN gLast.op ELSE "other"
    /\ pre' = gpu
    /\ acquired' = IF name = "alloc"
                       THEN {st.acq[k] : k \in 1..Len(st.acq)}
                       ELSE acquired
    /\ UNCHANGED <<devID, renderDevID>>

\* The buffer is allocated: alloc() has run and free() has not run since.
\* Callers swap, map, unmap and copy only a buffer that is allocated, and
\* alloc() only one that is not; free() (which the destructor calls as well)
\* is made in any state.
Allocated(g) == g.m_hptr # 0

\* The CUDA calls an operation makes when none fails, and so the calls that
\* may be the one to fail (0: none fails).
FailPoints(st) == 0..st.calls

Alloc ==
    /\ ~exited
    /\ ~Allocated(gpu)
    /\ \E size \in 1..MaxSize, vbo \in BOOLEAN, doubleBuffer \in BOOLEAN :
          /\ Len(alloc(Begin(0), size, vbo, doubleBuffer).h) <= MaxHeap
          /\ \E failAt \in FailPoints(alloc(Begin(0), size, vbo, doubleBuffer)) :
                Call("alloc", alloc(Begin(failAt), size, vbo, doubleBuffer))
    /\ UNCHANGED ioVars

Free ==
    /\ ~exited
    /\ \E failAt \in FailPoints(free(Begin(0))) :
          Call("free", free(Begin(failAt)))
    /\ UNCHANGED ioVars

Swap ==
    /\ ~exited
    /\ Allocated(gpu)
    /\ Call("swap", swap(Begin(0)))
    /\ UNCHANGED ioVars

Map ==
    /\ ~exited
    /\ Allocated(gpu)
    /\ \E failAt \in FailPoints(map(Begin(0))) :
          Call("map", map(Begin(failAt)))
    /\ UNCHANGED ioVars

Unmap ==
    /\ ~exited
    /\ Allocated(gpu)
    /\ \E failAt \in FailPoints(unmap(Begin(0))) :
          Call("unmap", unmap(Begin(failAt)))
    /\ UNCHANGED ioVars

Copy ==
    /\ ~exited
    /\ Allocated(gpu)
    /\ \E dir \in {"HOST_TO_DEVICE", "DEVICE_TO_HOST"},
          start \in 0..MaxSize, count \in 0..MaxSize :
          \E pastEndFails \in
                IF copy(Begin(0), dir, start, count, FALSE).oob
                   THEN BOOLEAN ELSE {FALSE} :
             \E failAt \in FailPoints(copy(Begin(0), dir, start, count,
                                            pastEndFails)) :
                Call("copy", copy(Begin(failAt), dir, start, count,
                                  pastEndFails))
    /\ UNCHANGED ioVars

\* The caller fills the host array through getHostPtr().  What it writes is
\* told apart from what a kernel writes and from memory never written (0).
HostPattern(sz) == [i \in 1..sz |-> 10 + i]

hostWrite(st) ==
    [st EXCEPT !.h[st.g.m_hptr].data = HostPattern(Len(@))]

\* A kernel fills the array at getDeviceWritePtr(), the write role.
DevicePattern(sz) == [i \in 1..sz |-> 20 + i]

deviceWrite(st) ==
    [st EXCEPT !.h[getDeviceWritePtr(st.g)].data = DevicePattern(Len(@))]

HostWrite ==
    /\ ~exited
    /\ Allocated(gpu)
    /\ Call("hostWrite", hostWrite(Begin(0)))
    /\ UNCHANGED ioVars

\* "when using vbo, must map before getting device ptr": a kernel is launched
\* only on an address that is device memory or a mapped buffer object.
DeviceWrite ==
    /\ ~exited
    /\ Allocated(gpu)
    /\ ValidDevice(heap, getDeviceWritePtr(gpu))
    /\ Call("deviceWrite", deviceWrite(Begin(0)))
    /\ UNCHANGED ioVars

NextGpu ==
    \/ Alloc
    \/ Free
    \/ Swap
    \/ Map
    \/ Unmap
    \/ Copy

NextData ==
    \/ NextGpu
    \/ HostWrite
    \/ DeviceWrite

ComputeStep ==
    \/ PublishCheck
    \/ Populate
    \/ SetReady
    \/ IterateReturn
    \/ IterateThrow
    \/ Caught
    \/ Finish

IOStep ==
    \/ IOSleep
    \/ IOLoopTest
    \/ IOCheck
    \/ IORead
    \/ IOWrite
    \/ IOFree
    \/ IOAssertReady
    \/ IOSetIdle
    \/ IOUsleep

Next ==
    \/ ComputeStep
    \/ IOStep
    \/ RegionEnd

\* The handoff alone; the GpuArray object is constructed and never called.
InitHandoff ==
    /\ InitIO
    /\ InitGpu /\ gpu = Constructed(FALSE, FALSE)
    /\ devID = 0 /\ renderDevID = 0 /\ activeDevice = 0

Spec == InitHandoff /\ [][Next]_vars

\* The GpuArray object alone, under any sequence of member calls, with
\* devID = 0; renderDevID = 0; and no --dev or --renderdev option.
InitGpuAlone ==
    /\ InitIO /\ useMPIIO = FALSE /\ nProcs = 1
    /\ InitGpu /\ devID = 0 /\ renderDevID = 0 /\ activeDevice = 0

SpecGpu == InitGpuAlone /\ [][NextGpu]_vars

\* The GpuArray object with its contents: the caller also writes the host
\* array, and kernels write the device array of the write role.
SpecData == InitGpuAlone /\ [][NextData]_vars

\* The GpuArray object on a machine with two devices: --dev and --renderdev
\* select devID and renderDevID, and the calling thread is on either device.
InitDevices ==
    /\ InitIO /\ useMPIIO = FALSE /\ nProcs = 1
    /\ InitGpu

NextDevices ==
    \/ Alloc
    \/ Copy
    \/ Free

SpecDevices == InitDevices /\ [][NextDevices]_vars

\* The handoff without the assumption that each thread's stores become
\* visible to the other thread in program order.
Reordered ==
    \/ SetReadyEarly
    \/ PopulateLate
    \/ FinishEarly
    \/ SetReadyLate
    \/ IOSetIdleEarly
    \/ IOFreeLate

NextRelaxed ==
    \/ Next
    \/ Reordered

SpecRelaxed == InitHandoff /\ [][NextRelaxed]_vars

\* Both threads are scheduled fairly, and calls in the I/O thread return.
FairSpec == Spec /\ WF_vars(IOStep) /\ WF_vars(Finish) /\ WF_vars(Caught)

\* ------------------------------------------------------------ handoff claims
\* Positions at which each thread touches the slot payload.
ProducerInSlot == cpc \in {"populate", "setReady"}
ConsumerInSlot == ipc \in {"read", "write", "free"}

\* A step of the I/O thread itself (not the process being aborted under it).
IOThreadStep == ipc' # ipc /\ ipc' # "aborted"

C3_Transition ==
    /\ (writingFinished /\ ~writingFinished') =>
          /\ ioLast'.thread = "compute"
          /\ cpc = "setReady"
          /\ ipc' = ipc
    /\ (~writingFinished /\ writingFinished') =>
          /\ ioLast'.thread = "io"
          /\ ipc = "setIdle"
          /\ cpc' = cpc
          /\ Len(written) = nDrained
          /\ written[Len(written)].t = t_current
          /\ written[Len(written)].n = n
          /\ written[Len(written)].payload.t_current = nPublished
          /\ ioSharedData = EmptyPayload
    /\ IOThreadStep => ~(writingFinished /\ ~writingFinished')
    /\ (IOThreadStep /\ writingFinished') => (~writingFinished \/ ipc # "setIdle")

\* C3: the flag starts Idle and every step is a legal transition: Idle->Ready
\* by the producer only, Ready->Idle by the consumer only and only after it
\* read, wrote and released the payload.
C3_LegalTransitions == (writingFinished = TRUE) /\ [][C3_Transition]_vars

C3_Witness ==
    /\ ioLast.step = "IOSetIdle"
    /\ writingFinished
    /\ nPublished = 2

\* C4: at most one snapshot is in flight and the payload has one owner: the
\* consumer reads or frees the payload only while the flag is Ready, the
\* producer writes it only while the flag is Idle, and the two are never in
\* the payload at the same time.
C4_SingleOwner ==
    /\ ~(ProducerInSlot /\ ConsumerInSlot)
    /\ ConsumerInSlot => ~writingFinished
    /\ ProducerInSlot => writingFinished
    /\ nPublished - Len(written) <= 1

C4_Witness ==
    /\ ConsumerInSlot
    /\ nPublished = 2
    /\ cpc = "iterate"

\* One step: simulationFinished is separate from the flag, goes false->true once,
\* by the compute thread after iterate() returned or its exception was
\* caught; the I/O thread leaves its loop only at the loop test and only on
\* that signal, a started drain runs read, write, free, assert, set-Idle in
\* order before the loop test, and once the signal is set the I/O thread
\* eventually leaves the loop.
C6_Step ==
    /\ (simulationFinished' # simulationFinished) =>
          /\ ~simulationFinished /\ simulationFinished'
          /\ ioLast'.thread = "compute"
          /\ cpc = "finish" /\ cpc' = "done"
          /\ writingFinished' = writingFinished
          /\ ipc' = ipc
    /\ (cpc' = "finish" /\ cpc # "finish") =>
          ioLast'.step \in {"IterateReturn", "Caught"}
    /\ (ipc' = "exit" /\ ipc # "exit") => (ipc = "loop" /\ simulationFinished)
    /\ (ipc' = "loop" /\ ipc # "loop") => ipc \in {"sleep", "setIdle", "usleep"}
    /\ (ipc = "read" /\ IOThreadStep) => ipc' = "write"
    /\ (ipc = "write" /\ IOThreadStep) => (ipc' = "free" /\ Len(written') = Len(written) + 1)
    /\ (ipc = "free" /\ IOThreadStep) => (ipc' = "assert" /\ ioSharedData' = EmptyPayload)
    /\ (ipc = "assert" /\ IOThreadStep) => ipc' = "setIdle"
    /\ (ipc = "setIdle" /\ IOThreadStep) => (ipc' = "loop" /\ writingFinished')

C7_Step ==
    /\ (ipc = "check" /\ writingFinished /\ IOThreadStep) =>
          /\ ipc' = "usleep"
          /\ UNCHANGED <<writingFinished, ioSharedData, written, n, t_current,
                         nDrained, nPublished, cpc, simulationFinished>>
    /\ (ipc = "usleep" /\ IOThreadStep) =>
          /\ ipc' = "loop"
          /\ UNCHANGED <<writingFinished, ioSharedData, written, n, t_current,
                         nDrained, nPublished, cpc, simulationFinished>>

\* C7: a poll that finds the flag Idle never blocks, delivers nothing, leaves
\* flag and payload unchanged, and only sleeps before the next loop test.
C7_IdlePoll ==
    /\ [][C7_Step]_vars
    /\ [](ipc = "check" => ENABLED IOCheck)
    /\ [](ipc = "usleep" => ENABLED IOUsleep)

C7_Witness ==
    /\ ioLast.step = "IOCheck"
    /\ ipc = "usleep"
    /\ writingFinished
    /\ nPublished >= 1

\* One step: a publish attempted while the state is Ready fails with a usage error
\* and leaves the state and the payload unchanged; the in-flight payload is
\* never changed by the producer; a successful publish leaves the payload in
\* the slot and the state Ready.
C8_Step ==
    /\ (ioLast'.step = "PublishCheck" /\ cpc = "iterate" /\ ~writingFinished
        /\ ioLast'.thread = "compute") =>
          /\ publishResult' = "UsageError"
          /\ UNCHANGED <<writingFinished, ioSharedData, nPublished, cpc>>
    /\ (~writingFinished /\ ioSharedData' # ioSharedData) => ioLast'.thread = "io"
    /\ (cpc = "setReady" /\ cpc' = "iterate") =>
          /\ publishResult' = "ok"
          /\ ~writingFinished'
          /\ ioSharedData'.allocated
          /\ ioSharedData'.t_current = nPublished'
          /\ ioSharedData' = ioSharedData

\* C8: publish while Ready fails with a usage error and changes neither state
\* nor payload; a successful publish hands the payload over and sets Ready.
C8_PublishGuard == [][C8_Step]_vars

C8_Witness ==
    /\ publishResult = "UsageError"
    /\ ~writingFinished
    /\ ioSharedData.allocated
    /\ ioLast.step = "PublishCheck"

\* ----------------------------------------------------------- GpuArray claims
\* C1: after any sequence of alloc, swap, map, unmap, copy, free and alloc
\* again, an allocated buffer that is not double-buffered has currentRead =
\* currentWrite = 0, and one that is double-buffered has currentRead and
\* currentWrite equal to 0 and 1 in some order.
C1_IndexInvariant ==
    (~exited /\ Allocated(gpu)) =>
        IF gpu.m_doubleBuffer
           THEN {gpu.m_currentRead, gpu.m_currentWrite} = {0, 1}
           ELSE gpu.m_currentRead = 0 /\ gpu.m_currentWrite = 0

\* C5: alloc followed by free releases every resource alloc acquired (the
\* host array, each device allocation, each registered buffer object)
\* exactly once: none is left allocated, none is released twice.
C5_AllocFreeReleasesAll ==
    (gLast.op = "free" /\ gLast.ok /\ gPrev = "alloc") =>
        /\ \A p \in acquired : ~heap[p].live /\ heap[p].releases = 1
        /\ \A j \in 1..Len(gLast.rel) : \A k \in 1..Len(gLast.rel) :
              j # k => gLast.rel[j] # gLast.rel[k]
        /\ {gLast.rel[k] : k \in 1..Len(gLast.rel)} = acquired

\* C9: on a double-buffered GpuArray, swap exchanges currentRead and
\* currentWrite, they differ afterwards, a second swap returns the indices and
\* the slots the four accessors return to their values before the first, and
\* swap changes no other field.
C9_SwapDoubleBuffered ==
    (gLast.op = "swap" /\ pre.m_doubleBuffer /\ Allocated(pre)) =>
        LET again == swap(Begin(0)).g IN
        /\ gpu.m_currentRead = pre.m_currentWrite
        /\ gpu.m_currentWrite = pre.m_currentRead
        /\ gpu.m_currentRead # gpu.m_currentWrite
        /\ again.m_currentRead = pre.m_currentRead
        /\ again.m_currentWrite = pre.m_currentWrite
        /\ getDevicePtr(again) = getDevicePtr(pre)
        /\ getDeviceWritePtr(again) = getDeviceWritePtr(pre)
        /\ getVbo(again) = getVbo(pre)
        /\ getWriteVbo(again) = getWriteVbo(pre)
        /\ [gpu EXCEPT !.m_currentRead = 0, !.m_currentWrite = 0]
              = [pre EXCEPT !.m_currentRead = 0, !.m_currentWrite = 0]

IsMapped(g, h) == \E i \in Slots : g.m_vbo[i] # 0 /\ h[g.m_vbo[i]].mapped

\* The host elements that copy(dir, start, count) transfers, overwritten by
\* the caller between two copies.
OverwriteRange(st, start, count) ==
    LET cnt == IF count = 0 THEN st.g.m_size ELSE count IN
    [st EXCEPT !.h[st.g.m_hptr].data =
        [i \in 1..Len(@) |-> IF i > start /\ i <= start + cnt THEN 99 ELSE @[i]]]

\* C11: for every count in [0,size] and start in [0,size-count],
\* copy(HOST_TO_DEVICE, start, count) then copy(DEVICE_TO_HOST, start, count)
\* with no swap in between returns with the host array equal to its contents
\* before the first copy, also when the caller overwrote the host range in
\* between.
C11_RoundTrip ==
    (~exited /\ Allocated(gpu) /\ ~IsMapped(gpu, heap)) =>
        \A count \in 0..gpu.m_size : \A start \in 0..(gpu.m_size - count) :
           \A pastEndFails \in BOOLEAN :
              LET up == copy(Begin(0), "HOST_TO_DEVICE", start, count,
                             pastEndFails)
                  down == copy(OverwriteRange(up, start, count),
                               "DEVICE_TO_HOST", start, count, pastEndFails)
              IN  /\ down.ok
                  /\ ~down.oob /\ ~up.oob
                  /\ down.h[gpu.m_hptr].data = heap[gpu.m_hptr].data

\* The device-side storage of slot i: the buffer object of a graphics-backed
\* buffer, the device allocation otherwise.
SlotRes(g, i) == IF g.m_useVBO THEN g.m_vbo[i] ELSE g.m_dptr[i]

\* C12: on a double-buffered buffer copy transfers between the host array and
\* the slot of the read role, never the slot of the write role: a copy in
\* either direction leaves the write role's contents as they are, copy
\* device-to-host returns the read role's contents, and what the write role
\* holds is what copy(DEVICE_TO_HOST) returns after a swap().
C12_CopyUsesReadSlot ==
    (~exited /\ Allocated(gpu) /\ ~IsMapped(gpu, heap) /\ gpu.m_doubleBuffer) =>
        LET rd == SlotRes(gpu, gpu.m_currentRead)
            wr == SlotRes(gpu, gpu.m_currentWrite)
            up == copy(Begin(0), "HOST_TO_DEVICE", 0, 0, FALSE)
            down == copy(Begin(0), "DEVICE_TO_HOST", 0, 0, FALSE)
            swapped == copy(swap(Begin(0)), "DEVICE_TO_HOST", 0, 0, FALSE)
        IN  /\ rd # wr
            /\ up.ok /\ down.ok /\ swapped.ok
            /\ up.h[wr].data = heap[wr].data
            /\ up.h[rd].data = heap[gpu.m_hptr].data
            /\ down.h[wr].data = heap[wr].data
            /\ down.h[gpu.m_hptr].data = heap[rd].data
            /\ swapped.h[gpu.m_hptr].data = heap[wr].data

\* C13: copy saves and restores the active device: whatever device was
\* active before the call, equal to devID or renderDevID or not, the same
\* device is active when copy returns.
C13_DeviceRestored ==
    [][(gLast'.op = "copy" /\ gLast'.ok) => activeDevice' = activeDevice]_vars

\* C14: on a graphics-backed GpuArray, whenever the buffer is not mapped
\* (after alloc, after unmap, after copy, after free), getDevicePtr() and
\* getDeviceWritePtr() return the null pointer, not a stale device address.
C14_UnmappedNull ==
    (~exited /\ gpu.m_useVBO /\ ~IsMapped(gpu, heap)) =>
        /\ getDevicePtr(gpu) = 0
        /\ getDeviceWritePtr(gpu) = 0

C16_FreeIdempotent ==
    /\ (gLast.op = "free" /\ (gPrev = "free" \/ heap = <<>>)) =>
          /\ gLast.ok
          /\ gLast.calls = 0
          /\ gLast.rel = <<>>
          /\ gpu = pre
          /\ \A p \in 1..Len(heap) : heap[p].releases <= 1
    /\ (gLast.op = "free" /\ gLast.ok) =>
          \A failAt \in 0..2 :
             LET again == free(Begin(failAt)) IN
             /\ again.ok
             /\ again.calls = 0
             /\ again.rel = <<>>
             /\ again.g = gpu
             /\ again.h = heap

C16_Witness ==
    /\ gLast.op = "free"
    /\ gPrev = "free"
    /\ Len(heap) = 3
    /\ \A p \in 1..Len(heap) : heap[p].releases = 1

\* The place of a resource in the order of release the claim gives.
ReleaseRank(kind) == IF kind = "vbo" THEN 0 ELSE IF kind = "dev" THEN 1 ELSE 2

\* C17: free() releases the graphics registrations first, then the device
\* memory, then the host memory, the reverse of the order of acquisition: no
\* resource is released after one that the order puts later, and the host
\* array is the last released.
C17_ReleaseOrder ==
    (gLast.op = "free" /\ gLast.ok /\ Allocated(pre)) =>
        /\ \A j \in 1..Len(gLast.rel) : \A k \in 1..Len(gLast.rel) :
              j < k => ReleaseRank(heap[gLast.rel[j]].kind)
                          <= ReleaseRank(heap[gLast.rel[k]].kind)
        /\ gLast.rel # <<>>
        /\ heap[gLast.rel[Len(gLast.rel)]].kind = "host"

\* C18: alloc(size, vbo, doubleBuffer) that returns has acquired exactly one
\* host array of size elements, then one device-side array of size elements
\* when single-buffered and two when double-buffered, all of them device
\* allocations when vbo is false and all of them registered buffer objects
\* when vbo is true, each in the slot of its index.
C18_AllocShape ==
    (gLast.op = "alloc" /\ gLast.ok) =>
        LET A == gLast.acq
            nDev == IF gpu.m_doubleBuffer THEN 2 ELSE 1
            kind == IF gpu.m_useVBO THEN "vbo" ELSE "dev"
        IN  /\ Len(A) = 1 + nDev
            /\ \A j \in 1..Len(A) : \A k \in 1..Len(A) : j # k => A[j] # A[k]
            /\ \A k \in 1..Len(A) :
                  /\ heap[A[k]].live
                  /\ heap[A[k]].size = gpu.m_size
                  /\ heap[A[k]].kind = IF k = 1 THEN "host" ELSE kind
            /\ gpu.m_hptr = A[1]
            /\ \A i \in 0..(nDev - 1) : SlotRes(gpu, i) = A[i + 2]

C18_Witness ==
    /\ gLast.op = "alloc"
    /\ gLast.ok
    /\ gpu.m_doubleBuffer
    /\ ~gpu.m_useVBO
    /\ gpu.m_size > 1
    /\ gPrev = "free"

MapCalls(g) ==
    (IF g.m_vbo[0] # 0 THEN 1 ELSE 0)
    + (IF g.m_doubleBuffer /\ g.m_vbo[1] # 0 THEN 1 ELSE 0)

\* The last operation was a copy whose transfer (cudaMemcpy) failed.
TransferFailed ==
    /\ gLast.op = "copy"
    /\ gLast.failed
    /\ gLast.calls = MapCalls(pre) + 1

\* C20, as claimed: a failing transfer inside copy is surfaced to the caller
\* and the process goes on, with the buffer usable: the indices unchanged, a
\* graphics-backed buffer unmapped again and the active device restored.
C20_TransferErrorRetryable ==
    TransferFailed =>
        /\ ~exited
        /\ gpu.m_currentRead = pre.m_currentRead
        /\ gpu.m_currentWrite = pre.m_currentWrite
        /\ ~IsMapped(gpu, heap)
        /\ activeDevice = devID

\* C20, amended: a failing transfer inside copy ends the process in
\* exit(-1), so no error reaches the caller and nothing can be retried; at
\* that point the indices are unchanged, a graphics-backed buffer is still
\* mapped and the active device is renderDevID, not restored.
C20_TransferErrorExits ==
    TransferFailed =>
        /\ ~gLast.ok
        /\ exited
        /\ ~ENABLED NextDevices
        /\ gpu.m_currentRead = pre.m_currentRead
        /\ gpu.m_currentWrite = pre.m_currentWrite
        /\ activeDevice = renderDevID
        /\ \A i \in Slots :
              (gpu.m_vbo[i] # 0 /\ (i = 0 \/ gpu.m_doubleBuffer)) =>
                 (heap[gpu.m_vbo[i]].mapped /\ gpu.m_dptr[i] = gpu.m_vbo[i])

C20_Witness ==
    /\ TransferFailed
    /\ exited
    /\ gpu.m_useVBO
    /\ gpu.m_doubleBuffer
    /\ IsMapped(gpu, heap)
    /\ activeDevice = renderDevID
    /\ renderDevID # devID

\* C21: accesses to the flag and to the terminal signal are ordered as
\* acquire/release: a consumer that has observed Ready sees the payload of
\* that publish, a producer that has observed Idle sees the payload released,
\* and an I/O thread that has observed simulationFinished sees every store
\* the compute thread made before it.
C21_AcquireRelease ==
    /\ ipc \in {"read", "write"} =>
          /\ ioSharedData.allocated
          /\ ioSharedData.t_current = nPublished
    /\ cpc = "populate" => ioSharedData = EmptyPayload
    /\ ipc = "exit" => cpc = "done"

\* C22: no published snapshot is lost at shutdown: whenever the I/O thread
\* has left its poll loop the flag is Idle, every snapshot published has been
\* written and the payload is freed.
C22_NoSnapshotLost ==
    ipc = "exit" =>
        /\ writingFinished = TRUE
        /\ Len(written) = nPublished
        /\ ioSharedData = EmptyPayload

\* C23: copy(dir, start, count) reads and writes only element indices inside
\* [0, size) of the host array and of the read device slot, for every start
\* in [0, size) and every count in [0, size - start], count = 0 standing for
\* all elements.
C23_CopyInBounds ==
    (~exited /\ Allocated(gpu)) =>
        \A dir \in {"HOST_TO_DEVICE", "DEVICE_TO_HOST"} :
            \A start \in 0..(gpu.m_size - 1) :
                \A count \in 0..(gpu.m_size - start) :
                    ~copy(Begin(0), dir, start, count, FALSE).oob

\* C24: copy preserves the map state of a graphics-backed buffer: unmapped
\* before, it is unmapped after; mapped by the caller before, it is still
\* mapped after, with non-null device pointers, and copy has not issued a
\* map for the slot that was already mapped.
C24_MapStatePreserved ==
    [][(gLast'.op = "copy" /\ gpu.m_useVBO) =>
          IF IsMapped(gpu, heap)
             THEN /\ ~exited'
                  /\ IsMapped(gpu', heap')
                  /\ getDevicePtr(gpu') # 0
             ELSE exited' \/ ~IsMapped(gpu', heap')]_vars

\* C24 (as the code has it): a graphics-backed buffer that is unmapped
\* before copy is unmapped when copy returns; on a buffer the caller has
\* mapped, copy issues the map again as its first CUDA call, the call fails
\* and the process exits, the fields and the mapping as they were.
C24_MapStateAfterCopy ==
    [][(gLast'.op = "copy" /\ gpu.m_useVBO) =>
          IF IsMapped(gpu, heap)
             THEN /\ exited'
                  /\ gLast'.failed
                  /\ gLast'.calls = 1
                  /\ gpu' = gpu
                  /\ IsMapped(gpu', heap')
             ELSE gLast'.ok => ~IsMapped(gpu', heap')]_vars

C24_Witness ==
    /\ gLast.op = "copy"
    /\ gpu.m_useVBO
    /\ exited
    /\ gLast.failed
    /\ gLast.calls = 1
    /\ IsMapped(gpu, heap)
    /\ pre = gpu

\* The positions of the consumer from its observing Ready to its setting Idle.
ConsumerDraining == ipc \in {"read", "write", "free", "assert", "setIdle"}

\* One step taken while the consumer drains: the flag becomes Idle only by
\* the consumer's own store after the assertion; the assertion, when it is
\* evaluated, holds.
C25_Step ==
    /\ (ConsumerDraining /\ writingFinished') =>
          /\ ipc = "setIdle"
          /\ ioLast'.thread = "io"
          /\ ipc' = "loop"
    /\ (ipc = "assert" /\ IOThreadStep) => ipc' = "setIdle"

\* C25: assert(ioSharedData.writingFinished == false), evaluated after the
\* write and the free and before the consumer sets Idle, holds in every
\* interleaving: from the consumer's observing Ready until it sets Idle
\* itself the flag is Ready and no other thread makes it Idle.
C25_AssertHolds ==
    /\ [][C25_Step]_vars
    /\ [](ConsumerDraining => writingFinished = FALSE)
    /\ [](ipc # "assertFailed")

C25_Witness ==
    /\ ioLast.step = "IOAssertReady"
    /\ ipc = "setIdle"
    /\ writingFinished = FALSE
    /\ publishResult = "UsageError"
    /\ ioSharedData = EmptyPayload

\* C26: on a GpuArray allocated without a graphics buffer, map() and unmap()
\* are no-ops: they make no CUDA call and change no field and nothing on the
\* device; copy changes no field either; so getDevicePtr(), when it is the
\* address of the live device allocation before map, unmap or copy, is that
\* same address after it.
C26_NoVboNoOp ==
    [][(gLast'.op \in {"map", "unmap", "copy"} /\ ~gpu.m_useVBO) =>
          /\ gpu' = gpu
          /\ gLast'.op \in {"map", "unmap"} =>
                /\ gLast'.calls = 0
                /\ gLast'.ok
                /\ heap' = heap
                /\ activeDevice' = activeDevice
          /\ ValidDevice(heap, getDevicePtr(gpu)) =>
                /\ getDevicePtr(gpu') = getDevicePtr(gpu)
                /\ ValidDevice(heap', getDevicePtr(gpu'))]_vars

C26_Witness ==
    /\ gLast.op = "unmap"
    /\ gPrev = "other"
    /\ ~gpu.m_useVBO
    /\ gpu.m_doubleBuffer
    /\ gLast.calls = 0
    /\ ~exited
    /\ ValidDevice(heap, getDevicePtr(gpu))
    /\ heap[getDevicePtr(gpu)].kind = "dev"

\* C27: the I/O consumer thread exists exactly when MPI-IO is disabled: the
\* region runs 1 + (!useMPIIO) threads, with useMPIIO only the compute thread
\* runs, assert(!useMPIIO) in the I/O branch is never violated, and
\* tree->terminateIO() is called, after the region, only when useMPIIO is set.
C27_IOThreadIffNoMPIIO ==
    /\ NumThreads(useMPIIO) = (IF useMPIIO THEN 1 ELSE 2)
    /\ (ipc = "none") <=> useMPIIO
    /\ (ipc # "none" /\ ipc # "sleep") => ~useMPIIO
    /\ ~(ioLast.step = "IOSleep" /\ ipc = "assertFailed")
    /\ mpc = "region" => ~terminateIOCalled
    /\ mpc = "after" => terminateIOCalled = useMPIIO

C27_Witness ==
    /\ mpc = "after"
    /\ useMPIIO
    /\ terminateIOCalled
    /\ ipc = "none"
    /\ cpc = "done"
    /\ simulationFinished

=============================================================================
